---- MODULE Spec2Model ----
(***************************************************************************)
(* Tuya Monitor: the poll cycle of TuyaDeviceCoordinator and the token     *)
(* calls it makes (custom_components/tuya_monitor/__init__.py and          *)
(* token_manager.py).                                                      *)
(*                                                                         *)
(* Config entries (accounts) with their configured devices.  Each device   *)
(* has a coordinator; async_setup_entry hands the SAME dict `config` to    *)
(* every coordinator of the entry.  Poll cycles are asyncio tasks: the     *)
(* code between two awaits runs atomically, and every await on the network *)
(* is a point where other cycles, the vendor, the clock, a timeout or a    *)
(* cancellation may act.                                                   *)
(***************************************************************************)
EXTENDS Integers, Sequences, FiniteSets, TLC

\* ------------------------------------------------------------------ bounds
MaxPolls  == 3      \* poll cycles started during a run, all devices together
MaxTokens == 2      \* credentials the vendor issues during a run
MaxTicks  == 2      \* clock advances during a run
MaxItems  == 2      \* items in the result of a device response

\* Seconds the clock jumps in one advance, and the lifetimes (expire_time)
\* the vendor grants: 200 is inside the 300 s buffer at once, 400 is exactly
\* on its boundary after 100 s and inside it after 200 s.
ClockSteps        == {100}
ExpireTimes       == {200, 400}
InitExpirations   == {200, 400}
\* An expiry no clock of a run comes near.
FarExpirations    == {100000}

\* ------------------------------------------------------- program constants
EXPIRY_BUFFER == 300          \* the literal in `current_time + 300 > ...`
DEFAULT_TOKEN_EXPIRATION == 0 \* self.config.get(CONF_TOKEN_EXPIRATION, 0)

\* Two accounts (config entries): d1 and d2 are devices of e1, d3 of e2.  The
\* config flow sets no unique id, so two entries can hold one client_id.
Devices  == {"d1", "d2", "d3"}
EntryIds == <<"e1", "e2">>    \* hass.config_entries.async_entries(DOMAIN), in order
EntryOf  == [d \in Devices |-> IF d = "d3" THEN "e2" ELSE "e1"]
Entries  == {EntryIds[i] : i \in 1..Len(EntryIds)}

CLIENT_ID     == [e \in Entries |-> "client_1"]
CLIENT_SECRET == [e \in Entries |-> "secret_1"]
\* The accounts set up with a client_id each.
DISTINCT_CLIENT_ID == [e \in Entries |-> IF e = "e1" THEN "client_1" ELSE "client_2"]

\* How a token call fails and returns None (the timeout is the one of
\* token_manager.py:72, caught at line 112), and how a device request fails.
TokenFailureKinds  == {"transport_error", "timeout", "status_not_200",
                       "bad_json", "not_success", "empty_result"}
DeviceFailureKinds == {"transport_error", "status_not_200", "bad_json",
                       "not_success"}

\* Property codes and values a device reports.
Codes  == {"temp", "hum"}
Values == {1, 2}

\* Python's None as the value of new_token_info, and the empty slots.
\* Null is None where the other values are numbers (a token, a lifetime, a
\* property value).
Null       == -1
None       == [none |-> TRUE]
NoResponse == [kind |-> "none"]
NoRequest  == [kind |-> "none"]

VARIABLES
    now,        \* int(time.time()), seconds
    ticks,      \* clock advances so far
    issued,     \* credentials the vendor has issued so far (the newest one's id)
    config,     \* config[e]: the dict shared by the coordinators of entry e
    entryData,  \* entryData[e]: entry.data, the persisted config entry
    pc,         \* pc[d]: where device d's poll cycle is suspended
    call,       \* call[d]: the token request in flight for d's cycle
    response,   \* response[d]: the vendor's answer to it, not yet processed
    request,    \* request[d]: headers of the device request d's cycle built last
    outcome,    \* outcome[d]: how d's last finished cycle ended
    polls,      \* cycles started so far
    h,          \* h[d]: what d's running cycle has done, for the properties
    latest,     \* latest[e]: config[e] as the newest rotation of e should leave it
    properties, \* properties[d]: self.properties of d's coordinator
    data,       \* data[d]: coordinator.data, what d's last successful poll returned
    received,   \* received[d]: the device response with status 200 and success
                \* true that d's last finished cycle processed, if it got one
    scope,      \* what a run explores, fixed by Init: the devices polled, the
                \* results the vendor returns, the shapes of its token answers
    errors,     \* "Failed to refresh access token" errors logged (line 198),
                \* in the runs that count them
    flow        \* the config flow's user step (config_flow.py 139-198)

vars == <<now, ticks, issued, config, entryData, pc, call, response, request,
          outcome, polls, h, latest, properties, data, received, scope,
          errors, flow>>

\* ------------------------------------------------------------- pure helpers

\* dict.get(key, default)
Get(dict, key, default) == IF key \in DOMAIN dict THEN dict[key] ELSE default

\* {**dict, k1: v1, ...}: `upd` wins on the keys it has
Merge(dict, upd) == [k \in DOMAIN dict \cup DOMAIN upd |->
                        IF k \in DOMAIN upd THEN upd[k] ELSE dict[k]]

\* hmac.new(secret, message, sha256).hexdigest().upper(): an injective
\* function of key and message, tagged with its encoding.
HmacSha256HexUpper(key, message) ==
    [key |-> key, message |-> message, encoding |-> "HEX_UPPER"]

\* get_device_sign: message = client_id + access_token + t
get_device_sign_token_and_t(client_id, access_token, secret, t) ==
    HmacSha256HexUpper(secret, <<access_token, t>>)
get_device_sign(client_id, access_token, secret, t) ==
    HmacSha256HexUpper(secret, <<client_id, access_token, t>>)

\* int(time.time()) + int(expire_time)
ExpirationTimeNoClock(t, expire_time) == expire_time
ExpirationTime(t, expire_time) == t + expire_time

\* The value refresh_tuya_token / get_new_token return for a vendor answer
\* processed at clock t: None on every failure kind, else the credential dict.
TokenInfo(resp, t) ==
    IF resp.kind = "ok" /\ resp.expire_time # Null    \* int(None) raises: line 112
    THEN [access_token    |-> resp.access_token,
          refresh_token   |-> resp.refresh_token,
          expire_time     |-> resp.expire_time,
          expiration_time |-> ExpirationTime(t, resp.expire_time)]
    ELSE None

\* `if current_time + 300 > token_expiration`
NeedsRenewalFlipped(current_time, token_expiration) ==
    current_time + EXPIRY_BUFFER < token_expiration
NeedsRenewal(current_time, token_expiration) ==
    current_time + EXPIRY_BUFFER > token_expiration

\* `if not new_token_info` after the refresh attempt
FallbackNever(new_token_info) == FALSE
FallbackToNewToken(new_token_info) == new_token_info = None

\* for config_entry in async_entries(DOMAIN): if data.client_id == ours: break
RECURSIVE FindEntryFrom(_, _)
FindEntryFrom(i, client_id) ==
    IF i > Len(EntryIds) THEN "none"
    ELSE IF Get(entryData[EntryIds[i]], "client_id", "") = client_id
         THEN EntryIds[i]
         ELSE FindEntryFrom(i + 1, client_id)
FindEntry(client_id) == FindEntryFrom(1, client_id)

CredentialOf(info) ==
    [access_token     |-> info.access_token,
     refresh_token    |-> info.refresh_token,
     token_expiration |-> info.expiration_time]

\* self.config[...] = ... (lines 176-178), and the same with line 178 left out
InstalledConfigKeepsExpiration(e, info) ==
    Merge(config[e], [access_token  |-> info.access_token,
                      refresh_token |-> info.refresh_token])
InstalledConfig(e, info) == Merge(config[e], CredentialOf(info))

\* async_update_entry(entry, data={**entry.data, ...}) (lines 181-196)
InstalledEntriesTokensOnly(e, info) ==
    [entryData EXCEPT ![e] =
        Merge(entryData[e], [access_token  |-> info.access_token,
                             refresh_token |-> info.refresh_token])]
InstalledEntries(e, info) ==
    LET found == FindEntry(config[e]["client_id"])
    IN  IF found = "none" THEN entryData
        ELSE [entryData EXCEPT ![found] = Merge(entryData[found], CredentialOf(info))]

\* The access token the device request is built with (line 214: read from
\* the dict as it is then, cfg), and the token a cycle would use had it kept
\* the one it saw when it started.
AccessTokenAtStart(hd, cfg) == hd.startConfig["access_token"]
RequestAccessToken(hd, cfg) == cfg["access_token"]

\* The expiry the check reads (line 147).
TokenExpirationRead(d) ==
    Get(config[EntryOf[d]], "token_expiration", DEFAULT_TOKEN_EXPIRATION)

\* Lines 200-235: timestamp, signature and headers of the device request.
DeviceRequest(d, cfg, access_token) ==
    LET timestamp == now * 1000
    IN  [kind         |-> "device",
         device_id    |-> d,
         client_id    |-> cfg["client_id"],
         access_token |-> access_token,
         t            |-> timestamp,
         sign         |-> get_device_sign(cfg["client_id"], access_token,
                                          cfg["client_secret"], timestamp)]

\* ---------------------------------------------------- device response, sensor

\* The `result` of a device response: a bare list of {code, value} items, or
\* an object {"properties": [items]}.
ListResult(items)   == [shape |-> "list", items |-> items]
ObjectResult(items) == [shape |-> "object", items |-> items]
Item(code, value)   == [code |-> code, value |-> value]

\* Every item list of at most MaxItems items.
ItemLists ==
    UNION {[1..n -> {Item(c, v) : c \in Codes, v \in Values}] : n \in 0..MaxItems}

\* `code in self.properties`
InProperties(code, props) == \E i \in 1..Len(props) : props[i] = code

\* Line 284: `if not filter_properties or code in self.properties`
Keep(status_item, props) ==
    \/ ~(Len(props) > 0)
    \/ InProperties(status_item.code, props)

\* Line 275: the list a poll fills starts empty, whatever the last poll held.
CarriedOverProperties(old) == old
FreshProperties(old) == <<>>

\* Lines 280-288: the loop over the items, appending the kept ones to acc.
RECURSIVE FilterItems(_, _, _)
FilterItems(items, props, acc) ==
    IF items = <<>>
    THEN acc
    ELSE FilterItems(Tail(items), props,
                     IF Keep(Head(items), props)
                     THEN Append(acc, Item(Head(items).code, Head(items).value))
                     ELSE acc)

\* Lines 248-298: what the cycle makes of the device response resp while
\* self.properties is props and coordinator.data is old: the dict it returns,
\* or the exception raised inside the try block.  An object-shaped result is iterated as a dict, key by key,
\* and `.get` on the key, a str, raises AttributeError (line 281), which line
\* 296 turns into UpdateFailed; an empty one is falsy like the empty list.
ProcessDeviceResponse(resp, props, old) ==
    IF resp.kind # "ok"
    THEN [kind |-> "UpdateFailed"]
    ELSE IF resp.result.shape = "object" /\ resp.result.items # <<>>
         THEN [kind |-> "AttributeError"]
         ELSE IF resp.result.items = <<>>
              THEN [kind |-> "data", data |-> [properties |-> <<>>]]
              ELSE [kind |-> "data",
                    data |-> [properties |->
                        FilterItems(resp.result.items, props,
                                    FreshProperties(old.properties))]]

\* The codes of a property list, in order (sensor.py 43-45).
RECURSIVE CodesOf(_)
CodesOf(items) ==
    IF items = <<>> THEN <<>> ELSE <<Head(items).code>> \o CodesOf(Tail(items))

\* sensor.py 35-46.  The list sensor setup reads from entry.options is the
\* list object the coordinator was given as self.properties (__init__.py 69,
\* no copy on either side), so the codes auto-detection appends to it are
\* appended to self.properties: the value of self.properties after setup.
PropertiesAfterSensorSetup(requested, first_data) ==
    IF requested = <<>> THEN CodesOf(first_data.properties) ELSE requested

\* sensor.py 77-99 for the sensor of device d and property code.
RECURSIVE FirstValue(_, _)
FirstValue(items, code) ==
    IF items = <<>> THEN Null
    ELSE IF Head(items).code = code THEN Head(items).value
         ELSE FirstValue(Tail(items), code)
native_value(d, property_code) == FirstValue(data[d].properties, property_code)

\* coordinator.last_update_success in the states where a cycle of d has ended
\* and none has started since (the coordinator sets it when the refresh ends).
last_update_success(d) == outcome[d] = "data"

\* sensor.py 110-122.
available(d, property_code) ==
    /\ last_update_success(d)
    /\ \E i \in 1..Len(data[d].properties) :
          data[d].properties[i].code = property_code

\* -------------------------------------------------------------- config flow

\* async_show_form(step_id="user", errors=errors): the flow waits for input.
ShowForm(errors_base) ==
    [step |-> "form", errors |-> errors_base, user_input |-> None,
     new_token_info |-> None, answer |-> NoResponse, entry |-> None]

\* What the user can submit: the required fields, with or without the
\* optional user_id (the schema of lines 190-196).
UserInputs ==
    LET required == [client_id : {"client_1", "client_2"},
                     client_secret : {"secret_1", "secret_2"},
                     region : {"us", "eu"}]
    IN  required \cup {Merge(r, [user_id |-> "u1"]) : r \in required}

\* The data of the entry async_create_entry makes (lines 172-183), and the
\* same with the lifetime stored in place of the expiry instant.
CreatedEntryDataWithLifetime(user_input, new_token_info) ==
    [client_id        |-> user_input["client_id"],
     client_secret    |-> user_input["client_secret"],
     region           |-> user_input["region"],
     access_token     |-> new_token_info.access_token,
     refresh_token    |-> new_token_info.refresh_token,
     token_expiration |-> new_token_info.expire_time,
     user_id          |-> Get(user_input, "user_id", "")]
CreatedEntryData(user_input, new_token_info) ==
    [client_id        |-> user_input["client_id"],
     client_secret    |-> user_input["client_secret"],
     region           |-> user_input["region"],
     access_token     |-> new_token_info.access_token,
     refresh_token    |-> new_token_info.refresh_token,
     token_expiration |-> new_token_info.expiration_time,
     user_id          |-> Get(user_input, "user_id", "")]

\* ------------------------------------------------------------------- Init

\* The entry as the config flow wrote it (async_create_entry), or an entry of
\* an earlier revision that holds no refresh_token and no token_expiration:
\* the code allows for both (`in self.config`, `.get(..., 0)`).
BaseEntryWith(e, client_ids) ==
    [client_id |-> client_ids[e], client_secret |-> CLIENT_SECRET[e],
     region |-> "us", access_token |-> 0]
BaseEntry(e) == BaseEntryWith(e, CLIENT_ID)

\* An entry whose credential needs no renewal within the clock's range.
LongLivedEntryData ==
    {[e \in Entries |->
          Merge(BaseEntry(e), [refresh_token |-> 0, token_expiration |-> x])]
     : x \in FarExpirations}

\* The first account in each of its initial forms, beside a second account
\* whose credential is long-lived.
InitialEntryData ==
    {[e \in Entries |-> IF e = EntryIds[1] THEN first ELSE others[e]] :
        first \in {BaseEntry(EntryIds[1])}
                  \cup {Merge(BaseEntry(EntryIds[1]),
                              [refresh_token |-> 0, token_expiration |-> x])
                        : x \in InitExpirations},
        others \in LongLivedEntryData}

\* Two accounts whose credentials both need renewal, set up with one
\* client_id or with a client_id each.
TwoAccountsEntryData ==
    {[e \in Entries |->
          Merge(BaseEntryWith(e, client_ids),
                [refresh_token |-> 0, token_expiration |-> x])]
     : client_ids \in {CLIENT_ID, DISTINCT_CLIENT_ID}, x \in InitExpirations}

\* What is recorded of a running cycle; NoCycle while none runs.
CycleRecord(cfg, entries, token_expiration, t) ==
    [startConfig       |-> cfg,          \* config at the expiry check
     startEntryData    |-> entries,      \* the persisted entries then
     checkedExpiration |-> token_expiration,
     checkedAt         |-> t,
     nRefresh          |-> 0,            \* refresh_tuya_token calls made
     nObtain           |-> 0,            \* get_new_token calls made
     nFetch            |-> 0,            \* device requests sent
     refreshFailed     |-> FALSE,        \* refresh_tuya_token returned None
     obtainFailed      |-> FALSE,        \* get_new_token returned None
     installed         |-> None]         \* the new_token_info it installed
NoCycle == CycleRecord(<<>>, <<>>, 0, 0)

\* The `result` values device responses carry: one list, or every list and
\* an object.
OneResult   == {ListResult(<<Item("temp", 1)>>)}
EveryResult ==
    {ListResult(l) : l \in ItemLists} \cup {ObjectResult(<<Item("temp", 1)>>)}
ResultsOf(results) == IF results = "every" THEN EveryResult ELSE OneResult

\* What a run explores.  devices: the devices whose coordinators poll;
\* results: which `result` values device responses carry; shapes: which
\* fields the result of a successful token answer carries; requested: the
\* property codes the user configured for the devices; count_errors: whether
\* the run counts the errors line 198 logs.
TokenShapes == {"full", "no_access_token", "no_refresh_token", "no_expire_time"}
Scope(devices, results, shapes, requested, count_errors) ==
    [devices |-> devices, results |-> results, shapes |-> shapes,
     requested |-> requested, count_errors |-> count_errors]

\* Two devices of one account renewing the credential; one device result.
RenewalScope ==
    Scope({"d1", "d2"}, "one", {"full"}, <<"temp">>, FALSE)
\* One device, every device result, every requested list.
FetchScopes ==
    {Scope({"d1"}, "every", {"full"}, requested, FALSE)
     : requested \in {<<>>, <<"temp">>, <<"hum">>, <<"temp", "hum">>}}
\* One device, every shape of token answer.
ShapesScope ==
    Scope({"d1"}, "one", TokenShapes, <<"temp">>, FALSE)
\* One device whose cycles fail authentication and recover, the errors counted.
RecoveryScope ==
    Scope({"d1"}, "one", {"full"}, <<"temp">>, TRUE)

\* Two accounts with a device each, both renewing the credential.
AccountsScope ==
    Scope({"d1", "d3"}, "one", {"full"}, <<"temp">>, FALSE)

\* The state once async_setup_entry (__init__.py 49-97) and the sensor
\* platform's setup have run: every coordinator kept has had a successful
\* first refresh (lines 82-87 drop the others), made with the requested list
\* as self.properties, so it holds that poll's data.
InitWith(scopes, entries) ==
    /\ now = 0
    /\ ticks = 0
    /\ issued = 0
    /\ entryData \in entries
    /\ config = entryData                          \* config = dict(entry.data)
    /\ pc = [d \in Devices |-> "idle"]
    /\ call = [d \in Devices |-> NoRequest]
    /\ response = [d \in Devices |-> NoResponse]
    /\ request = [d \in Devices |-> NoRequest]
    /\ outcome = [d \in Devices |-> "none"]
    /\ polls = 0
    /\ h = [d \in Devices |-> NoCycle]
    /\ latest = config
    /\ scope \in scopes
    /\ \E r \in ResultsOf(scope.results) :
          LET first == ProcessDeviceResponse([kind |-> "ok", result |-> r],
                                             scope.requested,
                                             [properties |-> <<>>])
          IN  /\ first.kind = "data"
              /\ data = [d \in Devices |-> first.data]
              /\ properties = [d \in Devices |->
                     PropertiesAfterSensorSetup(scope.requested, first.data)]
    /\ received = [d \in Devices |-> NoResponse]
    /\ errors = 0
    /\ flow = ShowForm("none")

Init == InitWith({RenewalScope}, InitialEntryData)

\* ---------------------------------------------------------------- actions

\* Lines 293-298: what leaves _async_update_data for an exception raised
\* inside its try block.  `except Exception` wraps whatever it is in
\* UpdateFailed.
Escapes(err) == err
Raised(err) == "UpdateFailed"

\* The cycle's task ends: its locals are gone.  resp is the device response
\* with status 200 and success true it processed, NoResponse when it got none.
EndCycle(d, result, new_data, resp) ==
    /\ pc' = [pc EXCEPT ![d] = "idle"]
    /\ call' = [call EXCEPT ![d] = NoRequest]
    /\ response' = [response EXCEPT ![d] = NoResponse]
    /\ request' = [request EXCEPT ![d] = NoRequest]
    /\ h' = [h EXCEPT ![d] = NoCycle]
    /\ outcome' = [outcome EXCEPT ![d] = result]
    /\ data' = [data EXCEPT ![d] = new_data]
    /\ received' = [received EXCEPT ![d] = resp]

\* Lines 200-244: build the device request from the dict as it is now and
\* send it (the cycle suspends in session.get).  With None as the access
\* token, `client_id + access_token + t` (line 110) raises TypeError and line
\* 296 ends the cycle with UpdateFailed: no request is sent.
SendDeviceRequest(d, cfg, hd) ==
    IF RequestAccessToken(hd, cfg) = Null
    THEN EndCycle(d, Raised("TypeError"), data[d], NoResponse)
    ELSE /\ request' = [request EXCEPT ![d] =
                           DeviceRequest(d, cfg, RequestAccessToken(hd, cfg))]
         /\ pc' = [pc EXCEPT ![d] = "fetch"]
         /\ call' = [call EXCEPT ![d] = NoRequest]
         /\ response' = [response EXCEPT ![d] = NoResponse]
         /\ h' = [h EXCEPT ![d] = [hd EXCEPT !.nFetch = @ + 1]]
         /\ outcome' = [outcome EXCEPT ![d] = "none"]
         /\ received' = [received EXCEPT ![d] = NoResponse]
         /\ UNCHANGED data

\* Lines 174-196, then 200-244 with no await in between.
InstallAndSend(d, info, hd) ==
    LET e == EntryOf[d]
        cfg == InstalledConfig(e, info)
    IN  /\ config' = [config EXCEPT ![e] = cfg]
        /\ entryData' = InstalledEntries(e, info)
        /\ latest' = [latest EXCEPT ![e] = Merge(config[e], CredentialOf(info))]
        /\ SendDeviceRequest(d, cfg, [hd EXCEPT !.installed = info])

\* Lines 166-172: the cycle suspends in get_new_token.
CallGetNewToken(d, hd) ==
    /\ pc' = [pc EXCEPT ![d] = "obtain"]
    /\ call' = [call EXCEPT ![d] = [kind |-> "obtain"]]
    /\ response' = [response EXCEPT ![d] = NoResponse]
    /\ h' = [h EXCEPT ![d] = [hd EXCEPT !.nObtain = @ + 1]]
    /\ outcome' = [outcome EXCEPT ![d] = "none"]
    /\ received' = [received EXCEPT ![d] = NoResponse]
    /\ UNCHANGED <<config, entryData, latest, request, data>>

\* Lines 143-163 (and on to 244 on the fast path): a poll cycle starts.
StartCycle(d) ==
    LET e == EntryOf[d]
        cfg == config[e]
        current_time == now
        token_expiration == TokenExpirationRead(d)
        hd == CycleRecord(cfg, entryData, token_expiration, current_time)
    IN  /\ d \in scope.devices
        /\ pc[d] = "idle"
        /\ polls < MaxPolls
        /\ polls' = polls + 1
        /\ IF NeedsRenewal(current_time, token_expiration)
           THEN IF "refresh_token" \in DOMAIN cfg
                THEN /\ pc' = [pc EXCEPT ![d] = "refresh"]
                     /\ call' = [call EXCEPT ![d] =
                            [kind |-> "refresh", refresh_token |-> cfg["refresh_token"]]]
                     /\ h' = [h EXCEPT ![d] = [hd EXCEPT !.nRefresh = @ + 1]]
                     /\ outcome' = [outcome EXCEPT ![d] = "none"]
                     /\ received' = [received EXCEPT ![d] = NoResponse]
                     /\ UNCHANGED <<response, config, entryData, latest, request,
                                    data>>
                ELSE \* new_token_info stays None: `if not new_token_info`
                     CallGetNewToken(d, hd)
           ELSE /\ SendDeviceRequest(d, cfg, hd)
                /\ UNCHANGED <<config, entryData, latest>>
        /\ UNCHANGED <<now, ticks, issued, properties, scope, errors, flow>>

\* The result of a successful token answer of the given shape: the fields
\* the shape lacks are None to `result.get` (token_manager.py 99-101).
TokenAnswer(shape, token, ttl) ==
    [kind          |-> "ok",
     access_token  |-> IF shape = "no_access_token" THEN Null ELSE token,
     refresh_token |-> IF shape = "no_refresh_token" THEN Null ELSE token,
     expire_time   |-> IF shape = "no_expire_time" THEN Null ELSE ttl]

\* The vendor answers the token request of d's cycle with a fresh credential
\* (a new access/refresh pair); the answer is on its way to the cycle.  It
\* issues none on a refresh request that names no refresh token.
VendorIssuesToken(d) ==
    /\ pc[d] \in {"refresh", "obtain"}
    /\ pc[d] = "refresh" => call[d].refresh_token # Null
    /\ response[d] = NoResponse
    /\ issued < MaxTokens
    /\ \E ttl \in ExpireTimes, shape \in scope.shapes :
          response' = [response EXCEPT ![d] = TokenAnswer(shape, issued + 1, ttl)]
    /\ issued' = issued + 1
    /\ UNCHANGED <<now, ticks, config, entryData, pc, call, request, outcome,
                   polls, h, latest, properties, data, received, scope,
                   errors, flow>>

\* What the awaited token call can see when it resumes: the vendor's answer
\* if one is on its way, or a failure of one of the kinds (a transport error
\* can lose an answer the vendor did send).
Arriving(d) ==
    (IF response[d] = NoResponse THEN {} ELSE {response[d]})
    \cup {[kind |-> k] : k \in TokenFailureKinds}

\* refresh_tuya_token returns (token_manager.py 73-114), then lines 165-244.
RefreshReturns(d) ==
    /\ pc[d] = "refresh"
    /\ \E resp \in Arriving(d) :
          LET new_token_info == TokenInfo(resp, now)
          IN  IF FallbackToNewToken(new_token_info)
              THEN CallGetNewToken(d, [h[d] EXCEPT !.refreshFailed = TRUE])
              ELSE IF new_token_info # None
                   THEN InstallAndSend(d, new_token_info, h[d])
                   ELSE /\ SendDeviceRequest(d, config[EntryOf[d]],
                                             [h[d] EXCEPT !.refreshFailed = TRUE])
                        /\ UNCHANGED <<config, entryData, latest>>
    /\ UNCHANGED <<now, ticks, issued, polls, properties, scope, errors, flow>>

\* Lines 197-198 and on: get_new_token returned None; the cycle logs
\* "Failed to refresh access token" and goes on to the device request.
ObtainFailedRetries(d) ==
    /\ CallGetNewToken(d, [h[d] EXCEPT !.obtainFailed = TRUE])
    /\ UNCHANGED errors
ObtainFailedDropsCredential(d) ==
    /\ config' = [config EXCEPT ![EntryOf[d]]["access_token"] = Null]
    /\ SendDeviceRequest(d, config'[EntryOf[d]], [h[d] EXCEPT !.obtainFailed = TRUE])
    /\ errors' = IF scope.count_errors THEN errors + 1 ELSE errors
    /\ UNCHANGED <<entryData, latest>>
ObtainFailed(d) ==
    /\ SendDeviceRequest(d, config[EntryOf[d]], [h[d] EXCEPT !.obtainFailed = TRUE])
    /\ errors' = IF scope.count_errors THEN errors + 1 ELSE errors
    /\ UNCHANGED <<config, entryData, latest>>

\* get_new_token returns (token_manager.py 144-185), then lines 174-244.
GetNewTokenReturns(d) ==
    /\ pc[d] = "obtain"
    /\ \E resp \in Arriving(d) :
          LET new_token_info == TokenInfo(resp, now)
          IN  IF new_token_info # None
              THEN InstallAndSend(d, new_token_info, h[d]) /\ UNCHANGED errors
              ELSE ObtainFailed(d)
    /\ UNCHANGED <<now, ticks, issued, polls, properties, scope, flow>>

\* Lines 293-298: the handlers of a failed cycle log and raise UpdateFailed.
\* They write nothing: the store stays as it is, not as the cycle found it
\* when it started.
StoreRolledBack(store, at_start) == at_start
StoreAfterFailure(store, at_start) == store

\* The device responses a cycle can receive: a successful one with one of
\* the results, or a failure of one of the kinds.
DeviceResponses ==
    {[kind |-> "ok", result |-> r] : r \in ResultsOf(scope.results)}
    \cup {[kind |-> k] : k \in DeviceFailureKinds}

\* Lines 244-298: the device response arrives; the cycle returns the
\* property list or raises UpdateFailed.
DeviceResponds(d) ==
    /\ pc[d] = "fetch"
    /\ \E resp \in DeviceResponses :
          LET out == ProcessDeviceResponse(resp, properties[d], data[d])
          IN  IF out.kind = "data"
              THEN /\ EndCycle(d, "data", out.data, resp)
                   /\ UNCHANGED <<config, entryData>>
              ELSE /\ EndCycle(d, Raised(out.kind), data[d],
                               IF resp.kind = "ok" THEN resp ELSE NoResponse)
                   /\ config' = StoreAfterFailure(config,
                          [config EXCEPT ![EntryOf[d]] = h[d].startConfig])
                   /\ entryData' = StoreAfterFailure(entryData, h[d].startEntryData)
    /\ UNCHANGED <<now, ticks, issued, polls, latest, properties, scope,
                   errors, flow>>

\* async_timeout.timeout(10) of line 144 expires while the cycle is suspended
\* in a network call: CancelledError is thrown into the awaited call, leaves
\* it (it is no Exception), becomes TimeoutError at line 144, and line 296
\* turns that into UpdateFailed.  The call is a coroutine awaited inside the
\* cycle's task, so it ends with it.
Timeout(d) ==
    /\ pc[d] \in {"refresh", "obtain", "fetch"}
    /\ EndCycle(d, Raised("TimeoutError"), data[d], NoResponse)
    /\ config' = StoreAfterFailure(config,
           [config EXCEPT ![EntryOf[d]] = h[d].startConfig])
    /\ entryData' = StoreAfterFailure(entryData, h[d].startEntryData)
    /\ UNCHANGED <<now, ticks, issued, polls, latest, properties, scope,
                   errors, flow>>

\* The cycle's task is cancelled: CancelledError leaves _async_update_data.
Cancel(d) ==
    /\ pc[d] \in {"refresh", "obtain", "fetch"}
    /\ EndCycle(d, "cancelled", data[d], NoResponse)
    /\ UNCHANGED <<now, ticks, issued, config, entryData, polls, latest,
                   properties, scope, errors, flow>>

\* time.time() advances.
Tick ==
    /\ ticks < MaxTicks
    /\ \E s \in ClockSteps : now' = now + s
    /\ ticks' = ticks + 1
    /\ UNCHANGED <<issued, config, entryData, pc, call, response, request,
                   outcome, polls, h, latest, properties, data, received, scope,
                   errors, flow>>

Next ==
    \/ \E d \in Devices : StartCycle(d)
    \/ \E d \in Devices : VendorIssuesToken(d)
    \/ \E d \in Devices : RefreshReturns(d)
    \/ \E d \in Devices : GetNewTokenReturns(d)
    \/ \E d \in Devices : DeviceResponds(d)
    \/ \E d \in Devices : Timeout(d)
    \/ \E d \in Devices : Cancel(d)
    \/ Tick

Spec == Init /\ [][Next]_vars

\* async_step_user is called with the user's input (lines 143-154): the flow
\* suspends in get_new_token.
SubmitUserInput ==
    /\ flow.step = "form"
    /\ \E user_input \in UserInputs :
          flow' = [step |-> "token", errors |-> "none", user_input |-> user_input,
                   new_token_info |-> None, answer |-> NoResponse, entry |-> None]
    /\ UNCHANGED <<now, ticks, issued, config, entryData, pc, call, response,
                   request, outcome, polls, h, latest, properties, data,
                   received, scope, errors>>

\* The vendor answers the flow's token request; the answer is on its way.
FlowVendorIssuesToken ==
    /\ flow.step = "token"
    /\ flow.answer = NoResponse
    /\ issued < MaxTokens
    /\ \E ttl \in ExpireTimes, shape \in scope.shapes :
          flow' = [flow EXCEPT !.answer = TokenAnswer(shape, issued + 1, ttl)]
    /\ issued' = issued + 1
    /\ UNCHANGED <<now, ticks, config, entryData, pc, call, response, request,
                   outcome, polls, h, latest, properties, data, received, scope,
                   errors>>

\* get_new_token returns to the flow (config_flow.py 58-131, then 156-183):
\* the form again with errors["base"] = "token_failed", or the entry.  The
\* handler of lines 184-186 has nothing to catch: get_new_token returns None
\* rather than raise, and the dict it returns has the three keys read.
FlowTokenReturns ==
    /\ flow.step = "token"
    /\ \E resp \in (IF flow.answer = NoResponse THEN {} ELSE {flow.answer})
                     \cup {[kind |-> k] : k \in TokenFailureKinds} :
          LET new_token_info == TokenInfo(resp, now)
          IN  flow' = IF new_token_info = None
                      THEN ShowForm("token_failed")
                      ELSE [step |-> "created", errors |-> "none",
                            user_input |-> flow.user_input,
                            new_token_info |-> new_token_info,
                            answer |-> NoResponse,
                            entry |-> CreatedEntryData(flow.user_input,
                                                       new_token_info)]
    /\ UNCHANGED <<now, ticks, issued, config, entryData, pc, call, response,
                   request, outcome, polls, h, latest, properties, data,
                   received, scope, errors>>

\* Account setup: the config flow's user step against a vendor whose token
\* answers may lack fields; no device polls.
SetupScope == Scope({}, "one", TokenShapes, <<"temp">>, FALSE)
InitSetup == InitWith({SetupScope}, LongLivedEntryData)
NextSetup ==
    \/ SubmitUserInput
    \/ FlowVendorIssuesToken
    \/ FlowTokenReturns
    \/ Tick
SpecSetup == InitSetup /\ [][NextSetup]_vars

\* Polling alone: a credential that stays fresh whatever the clock, so every
\* cycle takes the fast path and no token call is made.
InitFetch == InitWith(FetchScopes, LongLivedEntryData)
NextFetch ==
    \/ \E d \in Devices : StartCycle(d)
    \/ \E d \in Devices : DeviceResponds(d)
    \/ \E d \in Devices : Timeout(d)
    \/ \E d \in Devices : Cancel(d)
SpecFetch == InitFetch /\ [][NextFetch]_vars

\* Renewal against a vendor whose token answers may lack fields.
InitShapes == InitWith({ShapesScope}, InitialEntryData)
SpecShapes == InitShapes /\ [][Next]_vars

\* Cycles of one device that fail authentication, and its later cycles.
InitRecovery == InitWith({RecoveryScope}, InitialEntryData)
SpecRecovery == InitRecovery /\ [][Next]_vars

\* Two accounts side by side (the config flow sets no unique id, so two
\* entries can be made with one client_id).
InitAccounts == InitWith({AccountsScope}, TwoAccountsEntryData)
SpecAccounts == InitAccounts /\ [][Next]_vars

\* ------------------------------------------------------------- properties

SameAccount(c, d) == EntryOf[c] = EntryOf[d]
Running(d) == pc[d] # "idle"
InTokenCall(d) == pc[d] \in {"refresh", "obtain"}
TokenCalls(d) == h[d].nRefresh + h[d].nObtain

\* What the cycle saw at its expiry check, in the spec's terms.
SawFresh(d) ==
    Running(d) /\ h[d].checkedAt + EXPIRY_BUFFER < h[d].checkedExpiration
SawNearExpiry(d) ==
    Running(d) /\ ~(h[d].checkedAt + EXPIRY_BUFFER < h[d].checkedExpiration)

\* Steps of a cycle, as action predicates.
Starts(d) == pc[d] = "idle" /\ pc'[d] # "idle"
Installs(d) == Running(d) /\ h[d].installed = None /\ h'[d].installed # None
BuildsRequest(d) == pc[d] # "fetch" /\ pc'[d] = "fetch"
Ends(d) == Running(d) /\ pc'[d] = "idle"

\* C1: single-flight.  Whenever two poll cycles of one account run at the
\* same time and each saw a credential inside the 300 s buffer, exactly one
\* token network call has been made by the two together, and once both go on
\* to the device request they carry the same access token.
C1_SingleFlight ==
    \A c \in Devices : \A d \in Devices :
        (c # d /\ SameAccount(c, d) /\ SawNearExpiry(c) /\ SawNearExpiry(d))
        => /\ TokenCalls(c) + TokenCalls(d) = 1
           /\ (pc[c] = "fetch" /\ pc[d] = "fetch")
                 => request[c].access_token = request[d].access_token

\* C2: at most one token call that can write the credential is in flight
\* per account: no two cycles of one account are both suspended in
\* refresh_tuya_token / get_new_token.
C2_OneWriteInFlight ==
    \A c \in Devices : \A d \in Devices :
        (c # d /\ SameAccount(c, d)) => ~(InTokenCall(c) /\ InTokenCall(d))

\* Parts of C3, stated below.
C3_FastPathState ==
    \A d \in Devices :
        SawFresh(d) => /\ h[d].nRefresh = 0 /\ h[d].nObtain = 0
                       /\ h[d].installed = None
                       /\ pc[d] = "fetch" /\ h[d].nFetch = 1
                       /\ request[d].access_token = h[d].startConfig["access_token"]
C3_FastPathStep ==
    \A d \in Devices :
        (Starts(d) /\ now + EXPIRY_BUFFER
                        < Get(config[EntryOf[d]], "token_expiration",
                              DEFAULT_TOKEN_EXPIRATION))
        => /\ config' = config /\ entryData' = entryData
           /\ pc'[d] = "fetch"
           /\ request'[d].access_token = config[EntryOf[d]]["access_token"]
\* C3: fast path.  A cycle whose check found now + 300 < token_expiration
\* makes no token call and installs nothing; the step of the check leaves
\* config and the persisted entry as they are and goes straight to the
\* device request, sent with the stored access token.
C3_FastPath == [](C3_FastPathState) /\ [][C3_FastPathStep]_vars

C3_Witness ==
    \E d \in Devices : SawFresh(d) /\ pc[d] = "fetch" /\ h[d].checkedAt > 0

\* Parts of C4, stated below.
C4_FallbackState ==
    \A d \in Devices :
        /\ h[d].refreshFailed => h[d].nObtain = 1
        /\ (h[d].nRefresh > 0 /\ h[d].nObtain > 0) => h[d].refreshFailed
C4_FallbackStep ==
    \A d \in Devices :
        /\ (pc[d] = "refresh" /\ h'[d].refreshFailed)
              => (pc'[d] = "obtain" /\ h[d].nObtain = 0 /\ h'[d].nObtain = 1
                  /\ outcome'[d] = "none")
        /\ (pc[d] = "refresh" /\ BuildsRequest(d)) => h'[d].installed # None
\* C4: fallback ordering.  The step in which refresh_tuya_token returns a
\* failure starts get_new_token in the same cycle and ends nothing; a cycle
\* that made both calls made get_new_token after the refresh had failed; so
\* no cycle ends on a refresh failure alone.
C4_Fallback == [](C4_FallbackState) /\ [][C4_FallbackStep]_vars

C4_Witness ==
    \E d \in Devices : pc[d] = "obtain" /\ h[d].refreshFailed /\ h[d].nObtain = 1

\* C5: when the refresh call and the get_new_token call of a cycle have both
\* failed, config and the persisted entry hold exactly what they held when
\* the cycle started.
C5_StoreAsAtCycleStart ==
    [][\A d \in Devices :
          (pc[d] = "obtain" /\ h[d].refreshFailed /\ h'[d].obtainFailed)
          => /\ config'[EntryOf[d]] = h[d].startConfig
             /\ entryData' = h[d].startEntryData]_vars

\* (The failing step itself writes nothing: what C5 misses is a write by
\* another cycle of the account while this one was suspended.)
FailingStepWritesNothing ==
    [][\A d \in Devices :
          (pc[d] = "obtain" /\ h'[d].obtainFailed)
          => (config' = config /\ entryData' = entryData)]_vars

\* C6: a cycle whose refresh call and get_new_token call both failed sends
\* no device request: it is not suspended in the device request and has
\* sent none.
C6_NoRequestAfterAuthFailure ==
    \A d \in Devices :
        (h[d].refreshFailed /\ h[d].obtainFailed)
        => (pc[d] # "fetch" /\ h[d].nFetch = 0)

\* Parts of C7, stated below.
C7_InstallStep ==
    /\ \A d \in Devices :
          Installs(d) =>
            /\ response[d].kind = "ok"
            /\ config'[EntryOf[d]]["access_token"] = response[d].access_token
            /\ config'[EntryOf[d]]["refresh_token"] = response[d].refresh_token
            /\ config'[EntryOf[d]]["token_expiration"] = now + response[d].expire_time
    /\ \A e \in Entries :
          config'[e] # config[e] => \E d \in Devices : EntryOf[d] = e /\ Installs(d)
\* C7: the step that processes a successful token answer (access_token A2,
\* refresh_token R2, expire_time T) leaves config holding A2, R2 and
\* token_expiration = the clock of that step + T; and config changes in no
\* step other than such an install.
C7_InstallExact == [][C7_InstallStep]_vars

InstallTime(d) == h[d].installed.expiration_time - h[d].installed.expire_time
C7_Witness ==
    \E d \in Devices :
        /\ h[d].installed # None
        /\ h[d].checkedAt < InstallTime(d) /\ InstallTime(d) < now
        /\ config[EntryOf[d]]["token_expiration"] = h[d].installed.expiration_time
        /\ config[EntryOf[d]]["access_token"] = h[d].installed.access_token

\* Parts of C8, stated below.
C8_RequestState ==
    \A d \in Devices :
        h[d].installed # None =>
            /\ pc[d] = "fetch" /\ h[d].nFetch = 1
            /\ request[d].access_token = h[d].installed.access_token
            /\ request[d].sign =
                   get_device_sign(request[d].client_id, h[d].installed.access_token,
                                   config[EntryOf[d]]["client_secret"], request[d].t)
            /\ request[d].access_token # h[d].startConfig["access_token"]
C8_InstallFirst ==
    \A d \in Devices : Installs(d) => (h[d].nFetch = 0 /\ request[d] = NoRequest)
\* C8: a cycle that rotated the credential had sent no device request before
\* the install, and the request it then sends carries, in the access_token
\* header and in the signed message, the access token it installed, which is
\* not the token config held when the cycle started.
C8_RequestUsesNewToken == [](C8_RequestState) /\ [][C8_InstallFirst]_vars

C8_Witness ==
    \E d \in Devices :
        /\ h[d].installed # None /\ h[d].refreshFailed /\ pc[d] = "fetch"
        /\ request[d].access_token = h[d].installed.access_token

\* Parts of C9, stated below.
C9_ReadsStep ==
    \A d \in Devices :
        /\ Starts(d) => h'[d].checkedExpiration =
                            Get(latest[EntryOf[d]], "token_expiration",
                                DEFAULT_TOKEN_EXPIRATION)
        /\ BuildsRequest(d) => request'[d].access_token =
                                   latest'[EntryOf[d]]["access_token"]
\* C9: ordering.  Every expiry check and every device request of any cycle
\* of an account reads the credential of the account's newest rotation (the
\* setup credential before the first one), never an older one.
C9_ReadsLatest == [][C9_ReadsStep]_vars

C9_Witness ==
    \E c \in Devices : \E d \in Devices :
        /\ c # d /\ SameAccount(c, d)
        /\ h[c].installed # None
        /\ pc[d] = "fetch" /\ h[d].installed = None
        /\ h[d].checkedExpiration = h[c].installed.expiration_time
        /\ request[d].access_token = h[c].installed.access_token

\* C10: cancellation.  When a cycle suspended in a token call is cancelled
\* or timed out, the call stays in flight (to complete and install later).
C10_CallSurvivesCancel ==
    [][\A d \in Devices :
          (InTokenCall(d) /\ Ends(d)) => (call'[d] = call[d] /\ call'[d] # NoRequest)]_vars

\* Parts of C11, stated below.
RequestedCodes == {scope.requested[i] : i \in 1..Len(scope.requested)}
SucceedsWith(d) == pc[d] = "fetch" /\ outcome'[d] = "data"
ItemsWithCodeIn(items, codes) ==
    LET Requested(status_item) == status_item.code \in codes
    IN  SelectSeq(items, Requested)

\* C11: the readings a successful poll returns are the items of the response
\* whose code is in the requested set, in response order, and all the items
\* of the response when the requested set is empty.
C11_ReturnsRequestedItems ==
    [][\A d \in Devices :
          SucceedsWith(d) =>
              data'[d].properties =
                  IF RequestedCodes = {}
                  THEN received'[d].result.items
                  ELSE ItemsWithCodeIn(received'[d].result.items, RequestedCodes)]_vars

\* Parts of C12, stated below.
Sent(d) == request[d] # NoRequest
SignedWith(d, key, encoding) ==
    request[d].sign.key = key /\ request[d].sign.encoding = encoding

SensorCodes(d) == {properties[d][i] : i \in 1..Len(properties[d])}
ValuesIn(resp, code) ==
    {resp.result.items[i].value :
        i \in {j \in 1..Len(resp.result.items) : resp.result.items[j].code = code}}
\* C13: once a poll of a device has succeeded, each sensor of the device
\* shows the value its code has in that poll's response when the code is in
\* the response, and shows None and is unavailable when it is not, whatever
\* earlier polls returned.
C13_SensorShowsLastPoll ==
    \A d \in Devices :
        outcome[d] = "data" =>
            \A code \in SensorCodes(d) :
                IF ValuesIn(received[d], code) # {}
                THEN /\ native_value(d, code) \in ValuesIn(received[d], code)
                     /\ available(d, code)
                ELSE /\ native_value(d, code) = Null
                     /\ ~available(d, code)

\* A later poll that succeeded with a response lacking the code of a sensor.
C13_Witness ==
    \E d \in Devices, code \in Codes :
        /\ polls >= 2
        /\ outcome[d] = "data"
        /\ code \in SensorCodes(d)
        /\ Len(received[d].result.items) > 0
        /\ ValuesIn(received[d], code) = {}
        /\ native_value(d, code) = Null

\* C14: compare-and-swap install.  A cycle writes its renewed credential only
\* while the store's access_token is still the one the cycle read before its
\* token call; after another cycle's rotation the write does not happen and
\* the store keeps that cycle's credential.
C14_CompareAndSwap ==
    [][\A d \in Devices :
          LET e == EntryOf[d]
              expected_access_token == h[d].startConfig["access_token"]
          IN  /\ Installs(d) => config[e]["access_token"] = expected_access_token
              /\ (InTokenCall(d) /\ config[e]["access_token"] # expected_access_token)
                    => (\/ config'[e] = config[e]
                        \/ \E c \in Devices \ {d} : Installs(c))]_vars

\* Parts of C15, stated below.  CredentialFields(store) is the credential a
\* store holds: the fields it has of the three.  latest[e] holds the whole
\* credential of the newest token response installed for e, and the
\* credential of account setup before the first.
CredentialFields(store) ==
    [k \in {"access_token", "refresh_token", "token_expiration"} \cap DOMAIN store
        |-> store[k]]

\* C15: in every state, the credential in the in-memory store and the one in
\* the persisted entry are, whole, the credential of account setup or the
\* credential of one token response: no field comes from another response.
C15_WholeCredential ==
    \A e \in Entries :
        /\ CredentialFields(config[e]) = CredentialFields(latest[e])
        /\ CredentialFields(entryData[e]) = CredentialFields(latest[e])

\* Two cycles rotated the credential one after the other, and the second
\* write came with a different lifetime than the first.
C15_Witness ==
    \E c, d \in Devices :
        /\ h[c].installed # None /\ h[d].installed # None
        /\ h[c].installed.access_token # h[d].installed.access_token
        /\ h[c].installed.expiration_time # h[d].installed.expiration_time
        /\ config[EntryOf[d]]["access_token"] = h[d].installed.access_token

\* Parts of C16, stated below.
AtOrInsideBuffer(d) == h[d].checkedAt + EXPIRY_BUFFER >= h[d].checkedExpiration

\* C16: a cycle whose expiry check found now + 300 >= token_expiration,
\* equality included, has made a refresh or obtain-new-token call by the time
\* it sends the device request.
C16_RenewsAtBoundary ==
    \A d \in Devices :
        (pc[d] = "fetch" /\ AtOrInsideBuffer(d)) => TokenCalls(d) >= 1

\* Parts of C17, stated below.
NoRefreshToken(cfg) ==
    \/ "refresh_token" \notin DOMAIN cfg
    \/ cfg["refresh_token"] = Null

\* C17: a cycle that needs renewal and whose stored credential has no refresh
\* token, the entry missing or holding None, makes no refresh call and has
\* called get_new_token.
C17_NoRefreshWithoutToken ==
    \A d \in Devices :
        ( /\ Running(d)
          /\ NeedsRenewal(h[d].checkedAt, h[d].checkedExpiration)
          /\ NoRefreshToken(h[d].startConfig) )
        => (h[d].nRefresh = 0 /\ h[d].nObtain = 1)

\* C18: a cycle does not fail while it waits in the refresh call; when that
\* call times out, as when it meets a transport error, the cycle gets a
\* failure value from it and calls get_new_token before it can fail.
C18_RefreshTimeoutFallsBack ==
    [][\A d \in Devices :
          (pc[d] = "refresh" /\ Ends(d) /\ outcome'[d] = "UpdateFailed")
              => h[d].nObtain >= 1]_vars

\* Parts of C19, stated below.
LacksField(store) ==
    \/ store["access_token"] = Null
    \/ ("refresh_token" \in DOMAIN store /\ store["refresh_token"] = Null)
    \/ ("token_expiration" \in DOMAIN store /\ store["token_expiration"] = Null)

\* C19: a token call returns a credential only for an answer that carries
\* access_token, refresh_token and expire_time, and None otherwise, so no
\* credential lacking one of them is ever installed, in memory or in the
\* persisted entry.
C19_InstalledCredentialComplete ==
    \A e \in Entries : ~LacksField(config[e]) /\ ~LacksField(entryData[e])

\* C20: no internal retry.  A running cycle has made at most one refresh
\* call, at most one obtain-new-token call and at most one device request,
\* whatever those calls returned, and the cycle that follows it starts its
\* own count.
C20_OneAttemptEach ==
    [](\A d \in Devices :
          h[d].nRefresh <= 1 /\ h[d].nObtain <= 1 /\ h[d].nFetch <= 1)
    /\ [][\A d \in Devices :
             /\ Starts(d) => h'[d].nRefresh + h'[d].nObtain + h'[d].nFetch <= 1
             /\ (Running(d) /\ pc'[d] # "idle") =>
                   /\ h'[d].nRefresh >= h[d].nRefresh
                   /\ h'[d].nObtain >= h[d].nObtain
                   /\ h'[d].nFetch >= h[d].nFetch]_vars

\* Both token calls failed and the device request went out all the same:
\* one call of each kind.
C20_Witness ==
    \E d \in Devices :
        /\ pc[d] = "fetch"
        /\ h[d].refreshFailed /\ h[d].obtainFailed
        /\ h[d].nRefresh = 1 /\ h[d].nObtain = 1 /\ h[d].nFetch = 1

\* Parts of C21, stated below.
FetchFails(d) == pc[d] = "fetch" /\ Ends(d) /\ outcome'[d] = "UpdateFailed"
HoldsInstalled(store, d) ==
    /\ h[d].installed # None
    /\ CredentialFields(store) = CredentialOf(h[d].installed)

AsBareList(resp) == [kind |-> "ok", result |-> ListResult(resp.result.items)]
GotObject(d) == received[d].kind = "ok" /\ received[d].result.shape = "object"

\* C22: a device response whose result is an object {properties: [items]}
\* does not make the cycle fail, and yields the property list the same items
\* yield as a bare list.
C22_ObjectResultAsList ==
    \A d \in Devices :
        GotObject(d) =>
            /\ outcome[d] = "data"
            /\ data[d] = ProcessDeviceResponse(AsBareList(received[d]),
                                               properties[d], data[d]).data

\* Parts of C23, stated below.
FailsAuthentication(d) == Running(d) /\ ~h[d].obtainFailed /\ errors' > errors
ObtainAccepted(d) == pc[d] = "obtain" /\ Installs(d)
GetsReadings(d) == pc[d] = "fetch" /\ Ends(d) /\ received'[d].kind = "ok"

\* C23: a cycle whose refresh and obtain calls both fail leaves the account
\* as it found it, so that in any later cycle, after any number of such
\* failures, an accepted obtain-new-token call installs the fresh credential
\* and sends the device request with it, and an accepted device request
\* returns readings.
C23_RecoversAfterFailures ==
    [][\A d \in Devices :
          LET e == EntryOf[d]
          IN  /\ FailsAuthentication(d) =>
                    (config' = config /\ entryData' = entryData)
              /\ ObtainAccepted(d) =>
                    /\ pc'[d] = "fetch"
                    /\ h'[d].installed.access_token > config[e]["access_token"]
                    /\ CredentialFields(config'[e]) = CredentialOf(h'[d].installed)
                    /\ CredentialFields(entryData'[e]) = CredentialOf(h'[d].installed)
                    /\ request'[d].access_token = h'[d].installed.access_token
              /\ GetsReadings(d) =>
                    (outcome'[d] = "data" /\ data'[d].properties # <<>>)]_vars

\* Two cycles failed authentication; the third obtained a credential and
\* returned readings.
C23_Witness ==
    \E d \in Devices :
        /\ errors = 2 /\ polls = 3
        /\ outcome[d] = "data"
        /\ issued > 0 /\ config[EntryOf[d]]["access_token"] = issued
        /\ "refresh_token" \in DOMAIN config[EntryOf[d]]

\* Parts of C24, stated below.
Failures == {"UpdateFailed"}
CanStartAgain(d) ==
    (d \in scope.devices /\ pc[d] = "idle" /\ polls < MaxPolls) => ENABLED StartCycle(d)

\* C24 for every cycle, a cancelled one included: a cycle ends by returning a
\* property list or by reporting UpdateFailed, and nothing else.
C24_TwoOutcomes ==
    [][\A d \in Devices :
          Ends(d) => outcome'[d] \in {"data"} \cup Failures]_vars

\* C24: a cycle whose task is not cancelled ends by returning a property
\* list or by reporting UpdateFailed; no failure of a token call or of the
\* device request, a timeout, a malformed response or a missing field
\* included, leaves it as anything else, and once a cycle has ended, however
\* it ended, the next one can start.
C24_TwoOutcomesUnlessCancelled ==
    [](\A d \in Devices : CanStartAgain(d))
    /\ [][\A d \in Devices :
             Ends(d) =>
                 /\ Cancel(d) \/ outcome'[d] \in {"data"} \cup Failures
                 /\ pc'[d] = "idle" /\ h'[d] = NoCycle]_vars

\* A token answer without access_token was installed and the cycle ended on
\* the TypeError of the signature, as UpdateFailed.
C24_Witness ==
    \E d \in Devices :
        /\ outcome[d] = "UpdateFailed" /\ pc[d] = "idle"
        /\ config[EntryOf[d]]["access_token"] = Null

\* Parts of C25, stated below.
FlowReturns == flow.step = "token" /\ flow'.step # "token"
CreatesEntry == flow'.step = "created" /\ flow'.entry # None
StoresCredential(entry, user_input, new_token_info) ==
    /\ entry.client_id = user_input["client_id"]
    /\ entry.client_secret = user_input["client_secret"]
    /\ entry.region = user_input["region"]
    /\ entry.access_token = new_token_info.access_token
    /\ entry.refresh_token = new_token_info.refresh_token
    /\ entry.token_expiration =
           new_token_info.expiration_time
    /\ new_token_info.expiration_time <= now + new_token_info.expire_time

\* C25: the setup step creates an entry exactly when get_new_token returned
\* a credential for the input; the entry stores that credential's
\* access_token, refresh_token and expiry with the client_id, client_secret
\* and region supplied; when the token call failed there is no entry and the
\* form is shown again with an error.
C25_EntryIffCredential ==
    [](/\ flow.step = "created" =>
            StoresCredential(flow.entry, flow.user_input, flow.new_token_info)
       /\ flow.step # "created" => flow.entry = None)
    /\ [][FlowReturns =>
             /\ CreatesEntry <=> flow'.new_token_info # None
             /\ ~CreatesEntry =>
                   (flow'.step = "form" /\ flow'.errors = "token_failed"
                    /\ flow'.entry = None)]_vars

\* A first submission failed, a second one created the entry, and the clock
\* has advanced since the token arrived.
C25_Witness ==
    /\ flow.step = "created"
    /\ issued = 2
    /\ flow.entry.access_token = 2
    /\ flow.entry.token_expiration < now + flow.new_token_info.expire_time
    /\ flow.entry.token_expiration > flow.new_token_info.expire_time

\* C26: under racing renewals the store ends with the vendor's newest token.
\* With the vendor invalidating an account's earlier access token whenever it
\* issues a new one: once two cycles of one account have each installed the
\* credential of their token call and no cycle of the account is in a token
\* call, the store's access_token is the one issued last.  (`issued` numbers
\* the tokens in the order the vendor issued them; the cycles of one account
\* are the only ones to ask for tokens here.)
C26_StoreHoldsNewestToken ==
    \A c \in Devices : \A d \in Devices :
        (/\ c # d /\ SameAccount(c, d)
         /\ h[c].installed # None /\ h[d].installed # None
         /\ \A x \in Devices : SameAccount(x, c) => ~InTokenCall(x))
        => config[EntryOf[c]]["access_token"] = issued

\* C27: cross-account isolation of writes.  A credential rotation by a poll
\* cycle of account X puts the new credential in X's in-memory config and in
\* X's persisted entry, and leaves the in-memory config and the persisted
\* entry of every other account Y as they were, also when Y was set up with
\* the same client_id.
C27_RotationWritesOwnAccountOnly ==
    [][\A d \in Devices :
          Installs(d) =>
              LET X == EntryOf[d]
                  credential == CredentialOf(h'[d].installed)
              IN  /\ CredentialFields(config'[X]) = credential
                  /\ CredentialFields(entryData'[X]) = credential
                  /\ \A Y \in Entries \ {X} :
                        /\ config'[Y] = config[Y]
                        /\ entryData'[Y] = entryData[Y]]_vars

\* C28: persisted and in-memory credential agree.  In every state, for every
\* account, the (access_token, refresh_token, token_expiration) of the
\* account's persisted entry equals that of the in-memory config its poll
\* cycles use.
C28_PersistedEqualsInMemory ==
    \A e \in Entries :
        CredentialFields(entryData[e]) = CredentialFields(config[e])

====
